---- MODULE Spec2Model ----
(***************************************************************************)
(* Model of the two launcher scripts of SveltyCMS:                         *)
(*   scripts/dev.ts   - validates the configuration and launches the       *)
(*                      setup wizard or the CMS through nx;                *)
(*   scripts/build.ts - builds cms, or setup-wizard then cms with --all.   *)
(* One behaviour of the model is one run of one of the two scripts.        *)
(*                                                                         *)
(* A JavaScript string that the code splits, trims or concatenates is a    *)
(* sequence of pieces: PATH is the sequence of its ':'-separated entries   *)
(* (the empty string is the one-entry sequence <<"">>, as ''.split(':')    *)
(* gives ['']), NODE_OPTIONS is a sequence of words and " " pieces.  A     *)
(* variable that may be undefined is None or Some(value).                  *)
(***************************************************************************)
EXTENDS Integers, Sequences, FiniteSets, TLC

VARIABLES
    script,          \* which entry point runs: "dev" or "build"
    args,            \* process.argv.slice(2)
    config,          \* the verdict the validator returns for the configuration on disk
    processEnv,      \* process.env, the inherited environment
    bunxDirs,        \* file system: the directories that hold an entry named bunx
    tmpDirs,         \* file system: the sveltycms-bunx-* directories that exist
    mkdtempLog,      \* every directory mkdtempSync has created, in order
    exitHooks,       \* process.on('exit') callbacks: the tmpDir each one removes
    sigintHandlers,  \* process.on('SIGINT') callbacks: the child each one kills
    children,        \* the spawned children, in spawn order, with their promise
    validation,      \* the verdict main has read, None before
    validatorCalls,  \* how often validateSetupConfiguration has been called
    pc,              \* position of main: "start", "await", "settled", "returned", "exited"
    exitStatus,      \* the exit status of the process, None while it runs
    interrupted      \* TRUE once the SIGINT handler has run

vars == <<script, args, config, processEnv, bunxDirs, tmpDirs, mkdtempLog,
          exitHooks, sigintHandlers, children, validation, validatorCalls,
          pc, exitStatus, interrupted>>

---------------------------------------------------------------------------
(* Bounds and input sets *)

MaxArgs == 2

Flags == {"--all", "--setup", "--cms", "--prod", "--production"}

ArgLists == UNION {[1..n -> Flags] : n \in 0..MaxArgs}

None == << >>

Some(v) == <<v>>

\* The verdicts of the external validator (shape of SetupValidation).
Verdicts ==
    { [complete |-> FALSE, reason |-> Some("Missing database URL"),
       missingFields |-> <<"DB_URL">>, warnings |-> << >>],
      [complete |-> FALSE, reason |-> None,
       missingFields |-> << >>, warnings |-> <<"Using default admin password">>],
      [complete |-> TRUE, reason |-> None,
       missingFields |-> << >>, warnings |-> << >>],
      [complete |-> TRUE, reason |-> Some("ok"),
       missingFields |-> <<"DB_URL">>, warnings |-> <<"Using default admin password">>] }

\* Inherited environments the scripts may be started with.
InheritedEnvs ==
    { [PATH |-> Some(<<"/usr/bin", "/opt/bun">>), NODE_OPTIONS |-> None,
       NX_TERMINAL_OUTPUT_FORMAT |-> None, NX_NATIVE_LOGGING |-> None,
       FORCE_COLOR |-> None],
      [PATH |-> Some(<<"/usr/bin">>), NODE_OPTIONS |-> Some(<<"--inspect">>),
       NX_TERMINAL_OUTPUT_FORMAT |-> Some("json"), NX_NATIVE_LOGGING |-> Some("true"),
       FORCE_COLOR |-> Some("0")],
      [PATH |-> Some(<<"">>), NODE_OPTIONS |-> Some(<<" ", "--no-deprecation", " ">>),
       NX_TERMINAL_OUTPUT_FORMAT |-> None, NX_NATIVE_LOGGING |-> None,
       FORCE_COLOR |-> None],
      [PATH |-> None, NODE_OPTIONS |-> Some(<< >>),
       NX_TERMINAL_OUTPUT_FORMAT |-> Some("text"), NX_NATIVE_LOGGING |-> None,
       FORCE_COLOR |-> None] }

\* Where an entry named bunx may exist before the script starts.
InitialBunxDirs == { {}, {"/opt/bun"}, {"."} }

\* The names mkdtempSync may hand out (prefix plus a random suffix).
TmpNames == {"/tmp/sveltycms-bunx-a", "/tmp/sveltycms-bunx-b"}

\* What the two file-system calls of the shim creation may do.
FsOutcomes == {"ok", "mkdtempThrows", "symlinkThrows"}

\* The code of a child's 'exit' event: a number, or null when a signal
\* ended the child (NullCode stands for null).
NullCode == -1

ExitCodes == {0, 1, NullCode}

---------------------------------------------------------------------------
(* Command line *)

includes(list, flag) == \E i \in DOMAIN list : list[i] = flag

buildAll == includes(args, "--all")

forceSetup == includes(args, "--setup")

forceCms == includes(args, "--cms")

\* Variant of isProduction that knows only the short spelling of the flag.
isProduction_ProdOnly == includes(args, "--prod")

isProduction == includes(args, "--prod") \/ includes(args, "--production")

---------------------------------------------------------------------------
(* Environment Resolver: getEnvWithBunx, the same text in both scripts *)

IsSpace(piece) == piece = " "

RECURSIVE TrimStart(_)
TrimStart(str) ==
    IF str = << >> THEN << >>
    ELSE IF IsSpace(Head(str)) THEN TrimStart(Tail(str))
    ELSE str

RECURSIVE TrimEnd(_)
TrimEnd(str) ==
    IF str = << >> THEN << >>
    ELSE IF IsSpace(str[Len(str)]) THEN TrimEnd(SubSeq(str, 1, Len(str) - 1))
    ELSE str

\* String.prototype.trim
trim(str) == TrimEnd(TrimStart(str))

\* Variant of NodeOptionsOf that adds the flag only when nothing is inherited.
NodeOptionsOf_KeepInherited(env) ==
    IF env.NODE_OPTIONS = None THEN <<"--no-deprecation">> ELSE env.NODE_OPTIONS[1]

\* `${env.NODE_OPTIONS || ''} --no-deprecation`.trim()
NodeOptionsOf(env) ==
    LET old == IF env.NODE_OPTIONS = None THEN << >> ELSE env.NODE_OPTIONS[1]
    IN  trim(old \o <<" ", "--no-deprecation">>)

\* (env.PATH || '').split(path.delimiter)
pathDirs(env) == IF env.PATH = None THEN <<"">> ELSE env.PATH[1]

\* The directory in which path.join(dir, 'bunx') names an entry: an empty
\* PATH entry joins to the relative name 'bunx', looked up in the working
\* directory.
JoinDir(dir) == IF dir = "" THEN "." ELSE dir

\* Variant of bunxExists that looks into the first PATH directory only.
bunxExists_FirstOnly(env, bunx) == JoinDir(pathDirs(env)[1]) \in bunx

\* pathDirs.some(dir => fs.existsSync(path.join(dir, 'bunx')))
bunxExists(env, bunx) ==
    \E i \in DOMAIN pathDirs(env) : JoinDir(pathDirs(env)[i]) \in bunx

\* `${tmpDir}${path.delimiter}${env.PATH}`: an undefined PATH is rendered
\* by the template as the text "undefined".
PrependPath(tmpDir, env) ==
    <<tmpDir>> \o (IF env.PATH = None THEN <<"undefined">> ELSE env.PATH[1])

\* Variant of getEnvWithBunx that assigns PATH before it creates the link.
getEnvWithBunx_PathBeforeLink(penv, bunx, outcome, tmpDir) ==
    LET env == [penv EXCEPT !.NODE_OPTIONS = Some(NodeOptionsOf(penv)),
                            !.NX_TERMINAL_OUTPUT_FORMAT = Some("text"),
                            !.NX_NATIVE_LOGGING = Some("false")]
    IN  IF bunxExists(env, bunx)
        THEN [env |-> env, made |-> << >>, linked |-> {}, hooks |-> << >>]
        ELSE IF outcome = "mkdtempThrows"
        THEN [env |-> env, made |-> << >>, linked |-> {}, hooks |-> << >>]
        ELSE IF outcome = "symlinkThrows"
        THEN [env |-> [env EXCEPT !.PATH = Some(PrependPath(tmpDir, env))],
              made |-> <<tmpDir>>, linked |-> {}, hooks |-> << >>]
        ELSE [env |-> [env EXCEPT !.PATH = Some(PrependPath(tmpDir, env))],
              made |-> <<tmpDir>>, linked |-> {tmpDir}, hooks |-> <<tmpDir>>]

\* One call of getEnvWithBunx on the inherited environment penv with the
\* file system holding bunx in the directories bunx.  outcome says what
\* mkdtempSync and symlinkSync do if they are reached and tmpDir is the
\* name mkdtempSync hands out.  The result is the returned environment,
\* the directories created, the directories that received the bunx link
\* and the exit hooks registered.
getEnvWithBunx(penv, bunx, outcome, tmpDir) ==
    LET env == [penv EXCEPT !.NODE_OPTIONS = Some(NodeOptionsOf(penv)),
                            !.NX_TERMINAL_OUTPUT_FORMAT = Some("text"),
                            !.NX_NATIVE_LOGGING = Some("false")]
    IN  IF bunxExists(env, bunx)
        THEN [env |-> env, made |-> << >>, linked |-> {}, hooks |-> << >>]
        ELSE IF outcome = "mkdtempThrows"
        THEN [env |-> env, made |-> << >>, linked |-> {}, hooks |-> << >>]
        ELSE IF outcome = "symlinkThrows"
        THEN [env |-> env, made |-> <<tmpDir>>, linked |-> {}, hooks |-> << >>]
        ELSE [env |-> [env EXCEPT !.PATH = Some(PrependPath(tmpDir, env))],
              made |-> <<tmpDir>>, linked |-> {tmpDir}, hooks |-> <<tmpDir>>]

Range(seq) == {seq[i] : i \in DOMAIN seq}

---------------------------------------------------------------------------
(* Process Launcher *)

\* A spawned child and the promise of its launch.  shim records which way
\* getEnvWithBunx went for this launch.
Child(target, command, env, shim) ==
    [target |-> target, command |-> command, env |-> env, shim |-> shim,
     state |-> "running", code |-> None, sigints |-> 0, promise |-> "pending"]

\* The way a call of getEnvWithBunx went, read off its result r: the shim
\* was made ("created"), the try block threw after or before the directory
\* existed, or the alias was found ("present").
ShimOutcome(r) ==
    IF r.hooks # << >> THEN "created"
    ELSE IF r.made # << >> THEN "symlinkFailed"
    ELSE IF bunxExists(processEnv, bunxDirs) THEN "present"
    ELSE "mkdtempFailed"

\* The part of a launch that runs getEnvWithBunx and spawns the child with
\* the environment it returns, with FORCE_COLOR added if forceColor.
SpawnWith(target, command, forceColor) ==
    \E outcome \in FsOutcomes, tmpDir \in TmpNames \ Range(mkdtempLog) :
        LET r == getEnvWithBunx(processEnv, bunxDirs, outcome, tmpDir)
            env == IF forceColor THEN [r.env EXCEPT !.FORCE_COLOR = Some("1")]
                   ELSE r.env
        IN  /\ tmpDirs' = tmpDirs \cup Range(r.made)
            /\ mkdtempLog' = mkdtempLog \o r.made
            /\ bunxDirs' = bunxDirs \cup r.linked
            /\ exitHooks' = exitHooks \o r.hooks
            /\ children' = Append(children,
                                  Child(target, command, env, ShimOutcome(r)))

\* dev.ts launchApp(app, production) up to the return of the promise.
launchApp(app, production) ==
    /\ SpawnWith(app, IF production THEN "build" ELSE "dev", FALSE)
    /\ sigintHandlers' = Append(sigintHandlers, Len(children) + 1)

\* build.ts runBuild(target) up to the return of the promise.
runBuild(target) ==
    /\ SpawnWith(target, "build", TRUE)
    /\ UNCHANGED sigintHandlers

---------------------------------------------------------------------------
(* Process exit *)

\* The status the top-level catch of either script passes to process.exit.
FailureStatus == 1

\* The process exits with the given status: the 'exit' hooks run, each
\* removing its tmpDir with the bunx link in it; a removal that throws is
\* swallowed and leaves the directory.
Exit(status) ==
    /\ pc' = "exited"
    /\ exitStatus' = Some(status)
    /\ \E failed \in SUBSET Range(exitHooks) :
           LET removed == Range(exitHooks) \ failed
           IN  /\ tmpDirs' = tmpDirs \ removed
               /\ bunxDirs' = bunxDirs \ removed
    /\ UNCHANGED <<mkdtempLog, exitHooks, sigintHandlers>>

Static == <<script, args, config, processEnv>>

---------------------------------------------------------------------------
(* Dev Orchestrator: dev.ts main *)

\* validateSetupConfiguration(): the verdict for the configuration on disk.
validateSetupConfiguration == config

\* Variant of DevMain that asks the validator before it looks at the force flags.
DevMain_ValidateFirst ==
    /\ script = "dev"
    /\ pc = "start"
    /\ validation' = Some(validateSetupConfiguration)
    /\ validatorCalls' = validatorCalls + 1
    /\ IF forceSetup
       THEN launchApp("setup-wizard", isProduction)
       ELSE IF forceCms
       THEN launchApp("cms", isProduction)
       ELSE IF ~validateSetupConfiguration.complete
       THEN launchApp("setup-wizard", isProduction)
       ELSE launchApp("cms", isProduction)
    /\ pc' = "await"
    /\ UNCHANGED <<Static, exitStatus, interrupted>>

\* Variant of DevMain that takes an empty missingFields list for a complete
\* configuration.
DevMain_ByMissingFields ==
    /\ script = "dev"
    /\ pc = "start"
    /\ IF forceSetup
       THEN /\ launchApp("setup-wizard", isProduction)
            /\ UNCHANGED <<validation, validatorCalls>>
       ELSE IF forceCms
       THEN /\ launchApp("cms", isProduction)
            /\ UNCHANGED <<validation, validatorCalls>>
       ELSE /\ validation' = Some(validateSetupConfiguration)
            /\ validatorCalls' = validatorCalls + 1
            /\ IF validateSetupConfiguration.missingFields # << >>
               THEN launchApp("setup-wizard", isProduction)
               ELSE launchApp("cms", isProduction)
    /\ pc' = "await"
    /\ UNCHANGED <<Static, exitStatus, interrupted>>

\* Variant of DevMain that tests --cms before --setup.
DevMain_CmsFirst ==
    /\ script = "dev"
    /\ pc = "start"
    /\ IF forceCms
       THEN /\ launchApp("cms", isProduction)
            /\ UNCHANGED <<validation, validatorCalls>>
       ELSE IF forceSetup
       THEN /\ launchApp("setup-wizard", isProduction)
            /\ UNCHANGED <<validation, validatorCalls>>
       ELSE /\ validation' = Some(validateSetupConfiguration)
            /\ validatorCalls' = validatorCalls + 1
            /\ IF ~validateSetupConfiguration.complete
               THEN launchApp("setup-wizard", isProduction)
               ELSE launchApp("cms", isProduction)
    /\ pc' = "await"
    /\ UNCHANGED <<Static, exitStatus, interrupted>>

\* main of dev.ts from its first line to the await of the launch.
DevMain ==
    /\ script = "dev"
    /\ pc = "start"
    /\ IF forceSetup
       THEN /\ launchApp("setup-wizard", isProduction)
            /\ UNCHANGED <<validation, validatorCalls>>
       ELSE IF forceCms
       THEN /\ launchApp("cms", isProduction)
            /\ UNCHANGED <<validation, validatorCalls>>
       ELSE /\ validation' = Some(validateSetupConfiguration)
            /\ validatorCalls' = validatorCalls + 1
            /\ IF ~validateSetupConfiguration.complete
               THEN launchApp("setup-wizard", isProduction)
               ELSE launchApp("cms", isProduction)
    /\ pc' = "await"
    /\ UNCHANGED <<Static, exitStatus, interrupted>>

\* Variant of DevResume whose catch logs the error and lets main return.
DevResume_Swallow ==
    /\ script = "dev"
    /\ pc = "settled"
    /\ pc' = "returned"
    /\ UNCHANGED <<exitStatus, bunxDirs, tmpDirs, mkdtempLog, exitHooks,
                   sigintHandlers, children>>
    /\ UNCHANGED <<Static, validation, validatorCalls, interrupted>>

\* main of dev.ts after the awaited launch has settled.
DevResume ==
    /\ script = "dev"
    /\ pc = "settled"
    /\ IF children[Len(children)].promise = "rejected"
       THEN /\ Exit(FailureStatus)
            /\ UNCHANGED <<children>>
       ELSE /\ pc' = "returned"
            /\ UNCHANGED <<exitStatus, bunxDirs, tmpDirs, mkdtempLog, exitHooks,
                           sigintHandlers, children>>
    /\ UNCHANGED <<Static, validation, validatorCalls, interrupted>>

---------------------------------------------------------------------------
(* Build Orchestrator: build.ts main *)

\* Variant of BuildMain that starts with setup-wizard whatever the flags.
BuildMain_SetupFirst ==
    /\ script = "build"
    /\ pc = "start"
    /\ runBuild("setup-wizard")
    /\ pc' = "await"
    /\ UNCHANGED <<Static, validation, validatorCalls, exitStatus, interrupted>>

\* Variant of BuildMain that goes on without awaiting the first build.
BuildMain_NoAwait ==
    /\ script = "build"
    /\ pc = "start"
    /\ IF buildAll THEN runBuild("setup-wizard") ELSE runBuild("cms")
    /\ pc' = IF buildAll THEN "settled" ELSE "await"
    /\ UNCHANGED <<Static, validation, validatorCalls, exitStatus, interrupted>>

\* main of build.ts from its first line to the first await.
BuildMain ==
    /\ script = "build"
    /\ pc = "start"
    /\ IF buildAll THEN runBuild("setup-wizard") ELSE runBuild("cms")
    /\ pc' = "await"
    /\ UNCHANGED <<Static, validation, validatorCalls, exitStatus, interrupted>>

\* Variant of BuildResume that goes on to the cms build after a failed
\* setup-wizard build.
BuildResume_NoAbort ==
    /\ script = "build"
    /\ pc = "settled"
    /\ IF buildAll /\ Len(children) = 1
       THEN /\ runBuild("cms")
            /\ pc' = "await"
            /\ UNCHANGED <<exitStatus>>
       ELSE IF children[Len(children)].promise = "rejected"
       THEN /\ Exit(FailureStatus)
            /\ UNCHANGED <<children>>
       ELSE /\ pc' = "returned"
            /\ UNCHANGED <<exitStatus, bunxDirs, tmpDirs, mkdtempLog, exitHooks,
                           sigintHandlers, children>>
    /\ UNCHANGED <<Static, validation, validatorCalls, interrupted>>

\* main of build.ts after an awaited build has settled.
BuildResume ==
    /\ script = "build"
    /\ pc = "settled"
    /\ IF children[Len(children)].promise = "rejected"
       THEN /\ Exit(FailureStatus)
            /\ UNCHANGED <<children>>
       ELSE IF buildAll /\ Len(children) = 1
       THEN /\ runBuild("cms")
            /\ pc' = "await"
            /\ UNCHANGED <<exitStatus>>
       ELSE /\ pc' = "returned"
            /\ UNCHANGED <<exitStatus, bunxDirs, tmpDirs, mkdtempLog, exitHooks,
                           sigintHandlers, children>>
    /\ UNCHANGED <<Static, validation, validatorCalls, interrupted>>

---------------------------------------------------------------------------
(* Events *)

\* The promise settles at most once: resolve and reject of a settled
\* promise do nothing.
Settle(promise, outcome) == IF promise = "pending" THEN outcome ELSE promise

\* Variant of onExit that resolves whatever the code.
onExit_AlwaysResolve(promise, code) == Settle(promise, "resolved")

\* Variant of onExit that tests the code for truthiness, so that null passes.
onExit_Truthy(promise, code) ==
    IF code # 0 /\ code # NullCode
    THEN Settle(promise, "rejected") ELSE Settle(promise, "resolved")

\* child.on('exit', code => ...): what the handler does to the promise.
onExit(promise, code) ==
    IF code # 0 THEN Settle(promise, "rejected") ELSE Settle(promise, "resolved")

\* child.on('error', error => ...): what the handler does to the promise.
onError(promise) == Settle(promise, "rejected")

EventFrame ==
    UNCHANGED <<Static, bunxDirs, tmpDirs, mkdtempLog, exitHooks, sigintHandlers,
                validation, validatorCalls, exitStatus, interrupted>>

\* The running child ends and its 'exit' event is delivered.
ChildExit ==
    /\ pc = "await"
    /\ \E i \in DOMAIN children, code \in ExitCodes :
           /\ children[i].state = "running"
           /\ children' = [children EXCEPT ![i].state = "exited",
                                           ![i].code = Some(code),
                                           ![i].promise = onExit(@, code)]
    /\ pc' = "settled"
    /\ EventFrame

\* The child could not be started and its 'error' event is delivered.
ChildError ==
    /\ pc = "await"
    /\ \E i \in DOMAIN children :
           /\ children[i].state = "running"
           /\ children' = [children EXCEPT ![i].state = "error",
                                           ![i].promise = onError(@)]
    /\ pc' = "settled"
    /\ EventFrame

\* Variant of Sigint whose handler exits without signalling the child.
Sigint_NoKill ==
    /\ pc \in {"await", "returned"}
    /\ sigintHandlers # << >>
    /\ interrupted' = TRUE
    /\ Exit(0)
    /\ UNCHANGED <<Static, children, validation, validatorCalls>>

\* SIGINT arrives while the event loop is idle and a handler is installed
\* (dev.ts): the first handler signals its child and exits the process, so
\* no later handler runs.
Sigint ==
    /\ pc \in {"await", "returned"}
    /\ sigintHandlers # << >>
    /\ LET i == sigintHandlers[1]
       IN  children' = [children EXCEPT ![i].sigints =
                            IF children[i].state = "running" THEN @ + 1 ELSE @]
    /\ interrupted' = TRUE
    /\ Exit(0)
    /\ UNCHANGED <<Static, validation, validatorCalls>>

\* main has returned and nothing keeps the event loop alive: the process
\* ends with status 0.
ProcessEnd ==
    /\ pc = "returned"
    /\ Exit(0)
    /\ UNCHANGED <<Static, children, validation, validatorCalls, interrupted>>

\* A child that outlives its parent ends later with some code that no
\* handler observes.
OrphanExit ==
    /\ pc = "exited"
    /\ \E i \in DOMAIN children, code \in ExitCodes :
           /\ children[i].state = "running"
           /\ children' = [children EXCEPT ![i].state = "orphan",
                                           ![i].code = Some(code)]
    /\ UNCHANGED <<Static, bunxDirs, tmpDirs, mkdtempLog, exitHooks, sigintHandlers,
                   validation, validatorCalls, pc, exitStatus, interrupted>>

---------------------------------------------------------------------------
(* Specification *)

Init ==
    /\ script \in {"dev", "build"}
    /\ args \in ArgLists
    /\ config \in Verdicts
    /\ processEnv \in InheritedEnvs
    /\ bunxDirs \in InitialBunxDirs
    /\ tmpDirs = {}
    /\ mkdtempLog = << >>
    /\ exitHooks = << >>
    /\ sigintHandlers = << >>
    /\ children = << >>
    /\ validation = None
    /\ validatorCalls = 0
    /\ pc = "start"
    /\ exitStatus = None
    /\ interrupted = FALSE

Next ==
    \/ DevMain
    \/ DevResume
    \/ BuildMain
    \/ BuildResume
    \/ ChildExit
    \/ ChildError
    \/ Sigint
    \/ ProcessEnd
    \/ OrphanExit

Spec == Init /\ [][Next]_vars

---------------------------------------------------------------------------
(* Properties *)

\* A child has failed: it could not be started or its exit code is not 0.
Failed(c) == c.state = "error" \/ (c.state = "exited" /\ c.code # Some(0))

\* A child's 'exit' event with code 0 has been delivered.
Succeeded(c) == c.state = "exited" /\ c.code = Some(0)

\* C1: in build --all the first build started is setup-wizard and the
\* second is cms; cms is started only after the setup-wizard child has
\* exited with code 0; once the setup-wizard build has failed no cms build
\* exists and the process, when it has exited, has status 1.
C1_AllBuildsInOrder ==
    (script = "build" /\ buildAll) =>
        /\ Len(children) <= 2
        /\ (Len(children) >= 1 => children[1].target = "setup-wizard")
        /\ (Len(children) = 2 => /\ children[2].target = "cms"
                                 /\ Succeeded(children[1]))
        /\ (Len(children) >= 1 /\ Failed(children[1]) =>
                /\ Len(children) = 1
                /\ pc \in {"settled", "exited"}
                /\ (pc = "exited" => exitStatus = Some(1)))

C1_Witness ==
    /\ script = "build" /\ buildAll
    /\ Len(children) = 2
    /\ children[2].state = "running"

\* C2: in a build run without --all exactly one child is spawned over the
\* whole run and its target is cms.
C2_DefaultBuildsCmsOnce ==
    (script = "build" /\ ~buildAll) =>
        /\ Len(children) <= 1
        /\ (pc # "start" => Len(children) = 1)
        /\ \A i \in DOMAIN children : children[i].target = "cms"

C2_Witness ==
    /\ script = "build" /\ ~buildAll
    /\ pc = "exited"
    /\ Len(children) = 1
    /\ Succeeded(children[1])

\* C3: in a dev run with --setup or --cms the validator is never invoked
\* and the one target launched is one whose force flag was given, whatever
\* the verdict for the configuration on disk is.
C3_ForceSkipsValidator ==
    (script = "dev" /\ (forceSetup \/ forceCms)) =>
        /\ validatorCalls = 0
        /\ validation = None
        /\ Len(children) <= 1
        /\ (pc # "start" => Len(children) = 1)
        /\ \A i \in DOMAIN children :
               \/ children[i].target = "setup-wizard" /\ forceSetup
               \/ children[i].target = "cms" /\ forceCms

C3_Witness ==
    /\ script = "dev" /\ forceCms /\ ~forceSetup
    /\ ~config.complete
    /\ Len(children) = 1
    /\ children[1].target = "cms"

\* C4: in a dev run with neither force flag the validator is invoked
\* exactly once, exactly one target is launched, and it is setup-wizard
\* when the verdict's complete field is false and cms when it is true.
C4_VerdictSelectsTarget ==
    (script = "dev" /\ ~forceSetup /\ ~forceCms) =>
        /\ validatorCalls <= 1
        /\ Len(children) <= 1
        /\ (pc # "start" =>
                /\ validatorCalls = 1
                /\ validation = Some(config)
                /\ Len(children) = 1
                /\ children[1].target =
                       IF config.complete THEN "cms" ELSE "setup-wizard")

C4_Witness ==
    /\ script = "dev" /\ ~forceSetup /\ ~forceCms
    /\ config.complete /\ config.missingFields # << >>
    /\ validatorCalls = 1
    /\ Len(children) = 1
    /\ children[1].target = "cms"

\* The position of the first occurrence of a flag on the command line.
FirstIndex(list, flag) ==
    CHOOSE i \in DOMAIN list : list[i] = flag /\ \A j \in 1..(i - 1) : list[j] # flag

\* C5 as stated: with both --setup and --cms the target launched is the one
\* whose flag comes first on the command line.
C5_FirstListedWins ==
    (script = "dev" /\ forceSetup /\ forceCms) =>
        \A i \in DOMAIN children :
            children[i].target =
                IF FirstIndex(args, "--setup") < FirstIndex(args, "--cms")
                THEN "setup-wizard" ELSE "cms"

\* C5 amended: with both --setup and --cms the target launched is
\* setup-wizard in whatever order the flags are given, and cms is never
\* launched.
C5_SetupWins ==
    (script = "dev" /\ forceSetup /\ forceCms) =>
        /\ (pc # "start" => Len(children) = 1)
        /\ \A i \in DOMAIN children : children[i].target = "setup-wizard"

C5_Witness ==
    /\ script = "dev"
    /\ args = <<"--cms", "--setup">>
    /\ Len(children) = 1
    /\ children[1].target = "setup-wizard"

\* C6: in the dev script the subcommand of every launch is "build" exactly
\* when --prod or --production is on the command line and "dev" otherwise,
\* in each of the four branches, and the target is the one the force flags
\* and the verdict select, with or without the flag.
C6_ProdSelectsSubcommand ==
    script = "dev" =>
        \A i \in DOMAIN children :
            /\ children[i].command =
                   IF includes(args, "--prod") \/ includes(args, "--production")
                   THEN "build" ELSE "dev"
            /\ children[i].target =
                   IF includes(args, "--setup") THEN "setup-wizard"
                   ELSE IF includes(args, "--cms") THEN "cms"
                   ELSE IF config.complete THEN "cms"
                   ELSE "setup-wizard"

C6_Witness ==
    /\ script = "dev"
    /\ args = <<"--production">>
    /\ ~config.complete
    /\ Len(children) = 1
    /\ children[1].command = "build"
    /\ children[1].target = "setup-wizard"

\* C7: the promise of a launch is resolved only if the child's exit event
\* carried code 0, and it is rejected once the child has exited with
\* another code or could not be started.
C7_PromiseFollowsExitCode ==
    \A i \in DOMAIN children :
        /\ children[i].promise = "resolved" => Succeeded(children[i])
        /\ Succeeded(children[i]) => children[i].promise = "resolved"
        /\ Failed(children[i]) => children[i].promise = "rejected"
        /\ children[i].promise = "rejected" => Failed(children[i])

C7_Witness ==
    \E i \in DOMAIN children :
        /\ children[i].state = "exited"
        /\ children[i].code = Some(1)
        /\ children[i].promise = "rejected"

\* C8 as stated: once the process has exited, a rejected launch means
\* status 1, and status 0 means every launched child has exited with 0.
C8_ExitStatusFollowsChildren ==
    pc = "exited" =>
        /\ ((\E i \in DOMAIN children : children[i].promise = "rejected")
                => exitStatus = Some(1))
        /\ (exitStatus = Some(0)
                => \A i \in DOMAIN children : Succeeded(children[i]))

\* C8 amended: once the process has exited, a rejected launch means status
\* 1, and status 0 means every launched child has exited with 0 or the
\* SIGINT handler of the dev script has ended the process.
C8_ExitStatusUnlessInterrupted ==
    /\ ((\E i \in DOMAIN children : children[i].promise = "rejected")
            => pc \in {"settled", "exited"})
    /\ (pc = "exited" =>
            /\ ((\E i \in DOMAIN children : children[i].promise = "rejected")
                    => exitStatus = Some(1))
            /\ (exitStatus = Some(0)
                    => \/ \A i \in DOMAIN children : Succeeded(children[i])
                       \/ script = "dev" /\ interrupted))

C8_Witness ==
    /\ script = "dev"
    /\ pc = "exited"
    /\ exitStatus = Some(1)
    /\ Len(children) = 1
    /\ children[1].state = "error"

\* C9: at most one shim directory is created in a run, and a run that has
\* ended with bunx absent from PATH and every launch given a shim has
\* created exactly one.
C9_AtMostOneShimDir ==
    /\ Len(mkdtempLog) <= 1
    /\ (/\ pc = "exited"
        /\ ~bunxExists(processEnv, bunxDirs)
        /\ \A i \in DOMAIN children : children[i].env.PATH # processEnv.PATH)
            => Len(mkdtempLog) = 1

\* C10: when the process has exited, every directory mkdtempSync created
\* that still exists has a cleanup hook registered for it.
C10_CreatedDirsHaveCleanup ==
    pc = "exited" => (Range(mkdtempLog) \cap tmpDirs) \subseteq Range(exitHooks)


\* An entry named bunx exists in a directory listed in the inherited PATH.
AliasOnPath ==
    /\ processEnv.PATH # None
    /\ \E i \in DOMAIN processEnv.PATH[1] :
           /\ processEnv.PATH[1][i] # ""
           /\ processEnv.PATH[1][i] \in bunxDirs

\* C11: if an entry named bunx exists in a directory of the inherited
\* PATH, no temporary directory is created, no exit hook is registered and
\* every child's PATH equals the inherited PATH.
C11_AliasPresentNoShim ==
    AliasOnPath =>
        /\ mkdtempLog = << >>
        /\ tmpDirs = {}
        /\ exitHooks = << >>
        /\ \A i \in DOMAIN children : children[i].env.PATH = processEnv.PATH

C11_Witness ==
    /\ AliasOnPath
    /\ script = "build" /\ buildAll
    /\ Len(children) = 2
    /\ pc = "exited"


\* C12: the environment of every spawned child has NODE_OPTIONS containing
\* --no-deprecation, NX_TERMINAL_OUTPUT_FORMAT equal to text and
\* NX_NATIVE_LOGGING equal to false, whichever way the resolver went and
\* whatever was inherited; a build child also has FORCE_COLOR equal to 1.
C12_ChildEnvHasFixedVariables ==
    \A i \in DOMAIN children :
        /\ children[i].env.NODE_OPTIONS # None
        /\ "--no-deprecation" \in Range(children[i].env.NODE_OPTIONS[1])
        /\ children[i].env.NX_TERMINAL_OUTPUT_FORMAT = Some("text")
        /\ children[i].env.NX_NATIVE_LOGGING = Some("false")
        /\ (script = "build" => children[i].env.FORCE_COLOR = Some("1"))

C12_Witness ==
    /\ script = "build"
    /\ processEnv.NX_TERMINAL_OUTPUT_FORMAT = Some("json")
    /\ processEnv.NX_NATIVE_LOGGING = Some("true")
    /\ processEnv.FORCE_COLOR = Some("0")
    /\ processEnv.NODE_OPTIONS = Some(<<"--inspect">>)
    /\ Len(children) = 2
    /\ children[1].shim = "created"
    /\ children[2].shim = "mkdtempFailed"


\* C13: once the dev script has received SIGINT, a child that was running
\* at that moment has been sent SIGINT and the parent has exited with status
\* 0 while the launch was still pending; the status stays 0 whatever code
\* the child ends with afterwards.
C13_SigintForwardedThenExitZero ==
    (script = "dev" /\ interrupted) =>
        /\ pc = "exited"
        /\ exitStatus = Some(0)
        /\ \A i \in DOMAIN children :
               children[i].promise = "pending" =>
                   /\ children[i].sigints = 1
                   /\ children[i].state \in {"running", "orphan"}

C13_Witness ==
    /\ script = "dev" /\ interrupted
    /\ Len(children) = 1
    /\ children[1].state = "orphan"
    /\ children[1].code = Some(1)
    /\ children[1].sigints = 1
    /\ exitStatus = Some(0)


\* How often a piece occurs in a string.
RECURSIVE Occurrences(_, _)
Occurrences(str, piece) ==
    IF str = << >> THEN 0
    ELSE (IF Head(str) = piece THEN 1 ELSE 0) + Occurrences(Tail(str), piece)

\* The entries of the inherited PATH, none if PATH is not set.
InheritedPath == IF processEnv.PATH = None THEN << >> ELSE processEnv.PATH[1]

\* The inherited NODE_OPTIONS, empty if it is not set.
InheritedNodeOptions ==
    IF processEnv.NODE_OPTIONS = None THEN << >> ELSE processEnv.NODE_OPTIONS[1]

\* C14: the environment of every child is derived from the inherited
\* environment, which stays as it was: its NODE_OPTIONS has exactly one
\* --no-deprecation more than the inherited value, and its PATH is the
\* inherited PATH, alone or behind one shim directory that is in no other
\* child's PATH.
C14_EnvDerivedFromInherited ==
    \A i \in DOMAIN children :
        /\ children[i].env.NODE_OPTIONS # None
        /\ Occurrences(children[i].env.NODE_OPTIONS[1], "--no-deprecation")
               = Occurrences(InheritedNodeOptions, "--no-deprecation") + 1
        /\ \/ children[i].env.PATH = processEnv.PATH
           \/ \E d \in Range(mkdtempLog) :
                  /\ children[i].env.PATH = Some(<<d>> \o InheritedPath)
                  /\ \A j \in DOMAIN children \ {i} :
                         children[j].env.PATH = None
                             \/ d \notin Range(children[j].env.PATH[1])

\* The shim creation of the child's launch failed.
Degraded(c) == c.shim \in {"mkdtempFailed", "symlinkFailed"}

\* C15: a launch whose temporary directory or link could not be created
\* still spawns its child, with PATH equal to the inherited PATH, and once
\* the process has exited its status is 1 exactly if a child has failed.
C15_ShimFailureDegrades ==
    /\ (pc # "start" => Len(children) >= 1)
    /\ \A i \in DOMAIN children :
           Degraded(children[i]) =>
               /\ children[i].env.PATH = processEnv.PATH
               /\ (script = "dev" =>
                       children[i].env.FORCE_COLOR = processEnv.FORCE_COLOR)
               /\ (pc = "exited" =>
                       (exitStatus = Some(1)
                            <=> \E j \in DOMAIN children : Failed(children[j])))

C15_Witness ==
    /\ script = "build" /\ buildAll
    /\ Len(children) = 2
    /\ children[1].shim = "symlinkFailed"
    /\ children[2].shim = "mkdtempFailed"
    /\ pc = "exited"
    /\ exitStatus = Some(0)

\* The children that have been spawned and are not known to have ended.
Running == {i \in DOMAIN children : children[i].state = "running"}

\* C16: at most one spawned child is running in every state; in build
\* --all the cms child exists only when the setup-wizard child has exited,
\* and the dev script spawns at most one child.
C16_OneChildInFlight ==
    /\ Cardinality(Running) <= 1
    /\ (Len(children) >= 2 => 1 \notin Running /\ children[1].state = "exited")
    /\ (script = "dev" => Len(children) <= 1)

C16_Witness ==
    /\ script = "build" /\ buildAll
    /\ pc = "await"
    /\ Running = {2}
    /\ children[1].state = "exited"

\* C17: a child whose exit event carries code null, because a signal ended
\* it, has its launch rejected; no build is started after it, and the
\* process, once it has exited, has status 1.
C17_SignalledChildIsFailure ==
    \A i \in DOMAIN children :
        (children[i].state = "exited" /\ children[i].code = Some(NullCode)) =>
            /\ children[i].promise = "rejected"
            /\ i = Len(children)
            /\ pc \in {"settled", "exited"}
            /\ (pc = "exited" => exitStatus = Some(1))

C17_Witness ==
    /\ script = "build" /\ buildAll
    /\ Len(children) = 1
    /\ children[1].state = "exited"
    /\ children[1].code = Some(NullCode)
    /\ pc = "exited"
    /\ exitStatus = Some(1)

====
